---------------------------- MODULE Spec2Model ----------------------------
(***************************************************************************)
(* A model of app.py, the Streamlit quiz / cheat-sheet generator.          *)
(*                                                                         *)
(* The state is the SQLite database (tables users and chapters), the wall  *)
(* clock read by datetime.utcnow(), st.session_state.user of one browser   *)
(* session, and what the last run of the script did and rendered (view).   *)
(* Streamlit re-runs the whole script on every interaction, so one action  *)
(* is one script run: main() routes on session_state.user and the page     *)
(* function handles the button that was pressed.                           *)
(*                                                                         *)
(* Text is a sequence of one-character strings (tokens for titles), so     *)
(* that strip(), slicing, f-string concatenation and SQLite's text         *)
(* comparison are computed and not assumed.                                *)
(***************************************************************************)
EXTENDS Integers, Sequences, FiniteSets, TLC

VARIABLES
    users,      \* table users, in rowid order
    chapters,   \* table chapters, in rowid order
    now,        \* the wall clock, in half seconds
    user,       \* st.session_state.user: None or the row authenticate_user returned
    view,       \* the last script run: page, message, database calls, what was loaded and sent
    registered, \* history: email -> the password of its successful sign-up
    pasted      \* history: chapter id -> the text pasted into the text area it was saved from

vars == <<users, chapters, now, user, view, registered, pasted>>

-----------------------------------------------------------------------------
(* Bounds of the model. *)

\* The clock stops advancing here.
MaxTime == 1

\* No chapter is saved once the table holds this many rows.
MaxChapters == 2

\* Characters a source text holds beyond the truncation limit (SpecTrunc).
Excess == 5000

-----------------------------------------------------------------------------
(* Python values. *)

None == [py |-> "None"]

\* A text that is None: page.extract_text() of a page without a text layer.
NoText == <<"None">>

\* x or y, for a text x
PyOr(x, y) == IF x = NoText \/ x = <<>> THEN y ELSE x

Min(S) == CHOOSE x \in S : \A y \in S : x <= y

Max(S) == CHOOSE x \in S : \A y \in S : y <= x

Whitespace == {" ", "\n", "\t"}

RECURSIVE lstrip(_)
lstrip(s) ==
    IF s # <<>> /\ Head(s) \in Whitespace THEN lstrip(Tail(s)) ELSE s

RECURSIVE rstrip(_)
rstrip(s) ==
    IF s # <<>> /\ s[Len(s)] \in Whitespace
    THEN rstrip(SubSeq(s, 1, Len(s) - 1))
    ELSE s

\* str.strip()
strip(s) == rstrip(lstrip(s))

\* s[:n]
SliceTo(s, n) == [i \in 1..(IF Len(s) < n THEN Len(s) ELSE n) |-> s[i]]

\* "\n".join(parts)
RECURSIVE JoinNewline(_)
JoinNewline(parts) ==
    IF parts = <<>> THEN <<>>
    ELSE IF Len(parts) = 1 THEN parts[1]
    ELSE parts[1] \o <<"\n">> \o JoinNewline(Tail(parts))

-----------------------------------------------------------------------------
(* Timestamps: datetime.utcnow().isoformat(), compared as TEXT by SQLite. *)

Digits == <<"0", "1", "2", "3", "4", "5", "6", "7", "8", "9">>

\* The characters of a timestamp's varying part in code-point order.
CodePoints == <<".">> \o Digits

Ord(c) == CHOOSE i \in 1..Len(CodePoints) : CodePoints[i] = c

\* isoformat() of the clock value t: the seconds in two digits, and the
\* microseconds only when they are not zero.
isoformat(t) ==
    LET sec == t \div 2
        hms == <<Digits[(sec \div 10) + 1], Digits[(sec % 10) + 1]>>
    IN  IF t % 2 = 0 THEN hms
        ELSE hms \o <<".", "5", "0", "0", "0", "0", "0">>

\* SQLite's BINARY collation: memcmp, and a proper prefix sorts first.
RECURSIVE TextLess(_, _)
TextLess(a, b) ==
    IF b = <<>> THEN FALSE
    ELSE IF a = <<>> THEN TRUE
    ELSE IF Head(a) = Head(b) THEN TextLess(Tail(a), Tail(b))
    ELSE Ord(Head(a)) < Ord(Head(b))

-----------------------------------------------------------------------------
(* Inputs typed into the widgets. *)

Emails == {"", "alice@example.com", "bob@example.com"}

Passwords == {"", "pw1", "wrong"}

Titles == {<<>>, <<"Algebra">>}

ISBNs == {<<>>}

ChapterLabels == {<<"Ch1">>}

\* What is pasted into the text area.
PasteTexts == {<<>>, <<" ", "\n">>, <<" ", "a", "\n">>}

NoFile == None

\* Uploaded files, by declared media type: the texts pypdf extracts per page
\* (None for a page without text), the paragraphs of a Word document, the
\* decoded bytes of anything else (NoText: bytes that are not UTF-8).
PdfType == "application/pdf"

DocxType == "application/vnd.openxmlformats-officedocument.wordprocessingml.document"

UploadedFiles ==
    { [type |-> PdfType, pages |-> <<NoText>>],
      [type |-> PdfType, pages |-> <<<<"b">>, NoText>>],
      [type |-> DocxType, paragraphs |-> <<<<>>, <<>>>>],
      [type |-> DocxType, paragraphs |-> <<<<"b">>>>],
      [type |-> "text/plain", decoded |-> <<"b">>],
      [type |-> "text/plain", decoded |-> NoText] }

QuestionTypes == {"Mixed", "MCQ", "Subjective", "TF"}

Difficulties == {"Easy", "Medium", "Hard"}

Levels == {"Middle School", "High School", "Undergraduate", "Graduate"}

-----------------------------------------------------------------------------
(* Authentication helpers. *)

\* SHA-256 is taken to be injective: the digest is the password, tagged.
hash_password(password) == <<"sha256", password>>

\* Mutant: a users table without the UNIQUE constraint.
IntegrityError_never(email) == FALSE

\* The UNIQUE constraint on users.email.
IntegrityError(email) == \E i \in 1..Len(users) : users[i].email = email

\* create_user's INSERT: the table afterwards.
create_user_insert(email, password) ==
    IF IntegrityError(email) THEN users
    ELSE Append(users, [id            |-> Len(users) + 1,
                        email         |-> email,
                        password_hash |-> hash_password(password),
                        created_at    |-> isoformat(now)])

\* create_user's return value.
create_user(email, password) ==
    IF IntegrityError(email)
    THEN <<FALSE, "Email already registered.">>
    ELSE <<TRUE, "User created successfully.">>

\* Mutant: the query without its password_hash condition.
authenticate_user_email_only(email, password) ==
    LET hit == {i \in 1..Len(users) : users[i].email = email}
    IN  IF hit = {} THEN None ELSE users[Min(hit)]

\* SELECT * FROM users WHERE email = ? AND password_hash = ?, fetchone()
authenticate_user(email, password) ==
    LET hit == {i \in 1..Len(users) :
                    /\ users[i].email = email
                    /\ users[i].password_hash = hash_password(password)}
    IN  IF hit = {} THEN None ELSE users[Min(hit)]

-----------------------------------------------------------------------------
(* File parsers. *)

RECURSIVE extract_text_from_pdf(_)
extract_text_from_pdf(pages) ==
    IF pages = <<>> THEN <<>>
    ELSE PyOr(Head(pages), <<>>) \o extract_text_from_pdf(Tail(pages))

extract_text_from_docx(paragraphs) == JoinNewline(paragraphs)

-----------------------------------------------------------------------------
(* Chapter storage. *)

\* Mutant: the content is trimmed before it is stored.
save_chapter_stripped(user_id, title, isbn, chapter_label, content) ==
    Append(chapters, [id            |-> Len(chapters) + 1,
                      user_id       |-> user_id,
                      title         |-> title,
                      isbn          |-> isbn,
                      chapter_label |-> chapter_label,
                      content       |-> strip(content),
                      created_at    |-> isoformat(now)])

\* save_chapter's INSERT: the table afterwards. AUTOINCREMENT and no DELETE
\* anywhere make the new id the row count plus one.
save_chapter(user_id, title, isbn, chapter_label, content) ==
    Append(chapters, [id            |-> Len(chapters) + 1,
                      user_id       |-> user_id,
                      title         |-> title,
                      isbn          |-> isbn,
                      chapter_label |-> chapter_label,
                      content       |-> content,
                      created_at    |-> isoformat(now)])

\* The columns get_user_chapters selects.
Summary(row) ==
    [id            |-> row.id,
     title         |-> row.title,
     isbn          |-> row.isbn,
     chapter_label |-> row.chapter_label,
     created_at    |-> row.created_at]

\* All orders of the rows rs (a set of row numbers of table t).
RECURSIVE Orders(_, _)
Orders(t, rs) ==
    IF rs = {} THEN {<<>>}
    ELSE UNION {{<<t[i]>> \o rest : rest \in Orders(t, rs \ {i})} : i \in rs}

\* ORDER BY created_at DESC: the query names no second key, so rows with
\* equal created_at come in whatever order SQLite produces them.
OrderByCreatedAtDesc(seqs) ==
    {s \in seqs : \A i \in 1..Len(s) : \A j \in (i + 1)..Len(s) :
                     ~TextLess(s[i].created_at, s[j].created_at)}

\* The results get_user_chapters(user_id) can return.
get_user_chapters(user_id) ==
    LET matching == {i \in 1..Len(chapters) : chapters[i].user_id = user_id}
    IN  {[k \in 1..Len(s) |-> Summary(s[k])] :
            s \in OrderByCreatedAtDesc(Orders(chapters, matching))}

\* Mutant: the query without its user_id condition.
get_chapter_content_any_owner(chapter_id, user_id) ==
    LET hit == {i \in 1..Len(chapters) : chapters[i].id = chapter_id}
    IN  IF hit = {} THEN None ELSE chapters[Min(hit)]

\* SELECT * FROM chapters WHERE id = ? AND user_id = ?, fetchone()
get_chapter_content(chapter_id, user_id) ==
    LET hit == {i \in 1..Len(chapters) :
                    /\ chapters[i].id = chapter_id
                    /\ chapters[i].user_id = user_id}
    IN  IF hit = {} THEN None ELSE chapters[Min(hit)]

-----------------------------------------------------------------------------
(* Prompt builders: the payload sent to the generation service.  The fixed  *)
(* words of the two templates are left out; each hole is a field.           *)

\* The requirement lines of generate_quiz_from_text, in order.
instructions(question_type, num_mcq, num_subjective, num_tf) ==
    (IF question_type \in {"MCQ", "Mixed"}
     THEN <<[n |-> num_mcq, type |-> "MCQ"]>> ELSE <<>>)
    \o
    (IF question_type \in {"Subjective", "Mixed"}
     THEN <<[n |-> num_subjective, type |-> "Subjective"]>> ELSE <<>>)
    \o
    (IF question_type \in {"TF", "Mixed"}
     THEN <<[n |-> num_tf, type |-> "TF"]>> ELSE <<>>)

TruncLimit == 15000

\* Mutant: the text is embedded whole.
EmbeddedText_whole(text) == text

\* {text[:15000]}
EmbeddedText(text) == SliceTo(text, TruncLimit)

generate_quiz_from_text(text, chapter_label, question_type, difficulty, num_mcq, num_subjective, num_tf) ==
    [kind          |-> "quiz",
     chapter_label |-> chapter_label,
     difficulty    |-> difficulty,
     text          |-> EmbeddedText(text),
     requirements  |-> instructions(question_type, num_mcq, num_subjective, num_tf)]

generate_cheat_sheet(text, chapter_label, difficulty) ==
    [kind          |-> "cheat sheet",
     chapter_label |-> chapter_label,
     difficulty    |-> difficulty,
     text          |-> EmbeddedText(text)]

-----------------------------------------------------------------------------
(* What a script run leaves on the page. *)

Call(op, user_id) == [op |-> op, user_id |-> user_id]

AuthCall(op, email) == [op |-> op, email |-> email]

NoOptions == [l \in {} |-> 0]

View(page, msg, calls, listed, options, chapter, prompt) ==
    [page     |-> page,      \* the page function that ran
     msg      |-> msg,       \* st.error / st.success / st.info of the run
     calls    |-> calls,     \* the database helpers the run called, in order
     chapters |-> listed,    \* what get_user_chapters returned
     options  |-> options,   \* chapter_options of the select box
     chapter  |-> chapter,   \* what get_chapter_content returned
     prompt   |-> prompt]    \* the payload sent to the generation service

AuthView(msg, calls) == View("Login", msg, calls, <<>>, NoOptions, None, None)

\* user["id"] of the page functions
session_user_id == user.id

-----------------------------------------------------------------------------
(* The pages. *)

\* The select box label of a chapter
OptionLabel(c) ==
    PyOr(c.title, <<"Untitled">>) \o <<" - ">> \o PyOr(c.chapter_label, <<>>)

\* The dict comprehension: a later chapter with the same label replaces an
\* earlier one.
chapter_options(listed) ==
    [l \in {OptionLabel(listed[i]) : i \in 1..Len(listed)} |->
        listed[Max({i \in 1..Len(listed) : OptionLabel(listed[i]) = l})].id]

\* The rest of show_chapter_page, below the form: the saved chapters.
ChapterList(user_id, msg, calls) ==
    \E listed \in get_user_chapters(user_id) :
        view' = View("Chapters", msg,
                     calls \o <<Call("get_user_chapters", user_id)>>,
                     listed, NoOptions, None, None)

\* The text the "Save chapter" button takes: the uploaded file's when there
\* is one, the pasted text otherwise.
ChapterContent(uploaded_file, paste_text) ==
    IF uploaded_file # NoFile
    THEN IF uploaded_file.type = PdfType
         THEN extract_text_from_pdf(uploaded_file.pages)
         ELSE IF uploaded_file.type = DocxType
         THEN extract_text_from_docx(uploaded_file.paragraphs)
         ELSE uploaded_file.decoded
    ELSE paste_text

\* Mutant: the test without strip().
ContentMissing_unstripped(content) == content = <<>>

\* if not content.strip()
ContentMissing(content) == strip(content) = <<>>

-----------------------------------------------------------------------------
(* The script runs.  main() shows the login page while session_state.user  *)
(* is empty and the sidebar's pages otherwise.                             *)

Init ==
    /\ users = <<>>
    /\ chapters = <<>>
    /\ now = 0
    /\ user = None
    /\ view = AuthView("", <<>>)
    /\ registered = [e \in {} |-> ""]
    /\ pasted = [c \in {} |-> <<>>]

\* Time passes.
Tick ==
    /\ now < MaxTime
    /\ now' = now + 1
    /\ UNCHANGED <<users, chapters, user, view, registered, pasted>>

\* main() with no user and no button pressed.
ShowAuthPage ==
    /\ user = None
    /\ view' = AuthView("", <<>>)
    /\ UNCHANGED <<users, chapters, now, user, registered, pasted>>

\* The "Login" button.  On success st.rerun() runs main() again, now with a
\* user, and the sidebar's first page, Chapters, is drawn.
Login(email, password) ==
    /\ user = None
    /\ LET row == authenticate_user(email, password)
           call == <<[op |-> "authenticate_user"]>>
       IN  IF row # None
           THEN /\ user' = row
                /\ ChapterList(row.id, "", call)
           ELSE /\ user' = user
                /\ view' = AuthView("Invalid email or password.", call)
    /\ UNCHANGED <<users, chapters, now, registered, pasted>>

\* The "Sign up" button.
SignUp(email, password, password2) ==
    /\ user = None
    /\ IF email = "" \/ password = ""
       THEN /\ view' = AuthView("Email and password are required.", <<>>)
            /\ UNCHANGED <<users, registered>>
       ELSE IF password # password2
       THEN /\ view' = AuthView("Passwords do not match.", <<>>)
            /\ UNCHANGED <<users, registered>>
       ELSE LET res == create_user(email, password)
            IN  /\ users' = create_user_insert(email, password)
                /\ registered' =
                       IF res[1] THEN registered @@ (email :> password)
                       ELSE registered
                /\ view' = AuthView(IF res[1] THEN res[2] \o " You can log in now."
                                    ELSE res[2],
                                    <<AuthCall("create_user", email)>>)
    /\ UNCHANGED <<chapters, now, user, pasted>>

\* Mutant: the button that leaves session_state.user as it is.
Logout_keeps_user ==
    /\ user # None
    /\ view' = AuthView("", <<>>)
    /\ UNCHANGED <<users, chapters, now, user, registered, pasted>>

\* The sidebar's "Logout" button; st.rerun() then draws the login page.
Logout ==
    /\ user # None
    /\ user' = None
    /\ view' = AuthView("", <<>>)
    /\ UNCHANGED <<users, chapters, now, registered, pasted>>

\* show_chapter_page with no button pressed.
ShowChapterPage ==
    /\ user # None
    /\ ChapterList(session_user_id, "", <<>>)
    /\ UNCHANGED <<users, chapters, now, user, registered, pasted>>

\* show_chapter_page with "Save chapter" pressed.  Bytes that do not decode
\* raise, and the run ends there; empty content is refused and the page is
\* drawn to its end; otherwise the chapter is saved and st.rerun() draws the
\* page again.
SaveChapter(title, isbn, chapter_label, uploaded_file, paste_text) ==
    /\ user # None
    /\ Len(chapters) < MaxChapters
    /\ UNCHANGED <<users, now, user, registered>>
    /\ LET content == ChapterContent(uploaded_file, paste_text)
       IN  IF content = NoText
           THEN /\ view' = View("Chapters", "UnicodeDecodeError", <<>>,
                                <<>>, NoOptions, None, None)
                /\ UNCHANGED <<chapters, pasted>>
           ELSE IF ContentMissing(content)
           THEN /\ ChapterList(session_user_id,
                               "Please upload or paste some chapter content.", <<>>)
                /\ UNCHANGED <<chapters, pasted>>
           ELSE /\ chapters' = save_chapter(session_user_id, title, isbn,
                                            chapter_label, content)
                /\ pasted' = IF uploaded_file = NoFile
                             THEN pasted @@ ((Len(chapters) + 1) :> paste_text)
                             ELSE pasted
                /\ \E listed \in get_user_chapters(session_user_id)' :
                       view' = View("Chapters", "",
                                    <<Call("save_chapter", session_user_id),
                                      Call("get_user_chapters", session_user_id)>>,
                                    listed, NoOptions, None, None)

\* The number inputs of the quiz page (0 to 50; 5, 3 and 2 when untouched).
Counts == {0, 2, 3, 5}

\* Every setting of the quiz page's widgets.
QuizRequests ==
    [question_type  : QuestionTypes,
     difficulty     : Difficulties,
     num_mcq        : Counts,
     num_subjective : Counts,
     num_tf         : Counts]

\* The untouched widgets but for no subjective questions.
DefaultRequests ==
    {r \in QuizRequests :
        /\ r.question_type = "Mixed"
        /\ r.difficulty = "Medium"
        /\ r.num_mcq = 5
        /\ r.num_subjective = 0
        /\ r.num_tf = 2}

\* One setting per question type.
TypeRequests ==
    {r \in QuizRequests :
        /\ r.difficulty = "Medium"
        /\ r.num_mcq = 5
        /\ r.num_subjective = 3
        /\ r.num_tf = 2}

\* show_quiz_page: the chapters, the select box, the selected chapter and,
\* with "Generate quiz" pressed (request is the widgets' setting, None when
\* the button is not pressed), the payload.
ShowQuizPage(requests) ==
    /\ user # None
    /\ \E listed \in get_user_chapters(session_user_id) :
        LET list_call == <<Call("get_user_chapters", session_user_id)>>
        IN  IF listed = <<>>
            THEN view' = View("Generate Quiz", "You have no chapters yet.",
                              list_call, listed, NoOptions, None, None)
            ELSE \E selected_label \in DOMAIN chapter_options(listed) :
                 \E request \in requests \cup {None} :
                    LET options == chapter_options(listed)
                        chapter == get_chapter_content(options[selected_label],
                                                       session_user_id)
                        calls   == list_call
                                   \o <<Call("get_chapter_content", session_user_id)>>
                    IN  view' = View("Generate Quiz",
                                     IF request = None THEN "" ELSE "Quiz generated.",
                                     calls, listed, options, chapter,
                                     IF request = None THEN None
                                     ELSE generate_quiz_from_text(
                                              chapter.content,
                                              PyOr(chapter.chapter_label, <<>>),
                                              request.question_type,
                                              request.difficulty,
                                              request.num_mcq,
                                              request.num_subjective,
                                              request.num_tf))
    /\ UNCHANGED <<users, chapters, now, user, registered, pasted>>

\* show_cheat_sheet_page, likewise (level is the select box's, None when
\* "Generate cheat sheet" is not pressed).
ShowCheatSheetPage(levels) ==
    /\ user # None
    /\ \E listed \in get_user_chapters(session_user_id) :
        LET list_call == <<Call("get_user_chapters", session_user_id)>>
        IN  IF listed = <<>>
            THEN view' = View("Cheat Sheet", "You have no chapters yet.",
                              list_call, listed, NoOptions, None, None)
            ELSE \E selected_label \in DOMAIN chapter_options(listed) :
                 \E level \in levels \cup {"None"} :
                    LET options == chapter_options(listed)
                        chapter == get_chapter_content(options[selected_label],
                                                       session_user_id)
                        calls   == list_call
                                   \o <<Call("get_chapter_content", session_user_id)>>
                    IN  view' = View("Cheat Sheet",
                                     IF level = "None" THEN ""
                                     ELSE "Cheat sheet generated.",
                                     calls, listed, options, chapter,
                                     IF level = "None" THEN None
                                     ELSE generate_cheat_sheet(
                                              chapter.content,
                                              PyOr(chapter.chapter_label, <<>>),
                                              level))
    /\ UNCHANGED <<users, chapters, now, user, registered, pasted>>

\* main(): the router.
Next ==
    \/ Tick
    \/ ShowAuthPage
    \/ \E email \in Emails, password \in Passwords : Login(email, password)
    \/ \E email \in Emails, password \in Passwords, password2 \in Passwords :
           SignUp(email, password, password2)
    \/ Logout
    \/ ShowChapterPage
    \/ \E title \in Titles, isbn \in ISBNs, chapter_label \in ChapterLabels,
          uploaded_file \in UploadedFiles \cup {NoFile}, paste_text \in PasteTexts :
           SaveChapter(title, isbn, chapter_label, uploaded_file, paste_text)
    \/ ShowQuizPage(DefaultRequests)
    \/ ShowCheatSheetPage({"Undergraduate"})

Spec == Init /\ [][Next]_vars

-----------------------------------------------------------------------------
(* The prompt builders on their own: one teacher, logged in, with one      *)
(* saved chapter, pressing the two "Generate" buttons.                     *)

Teacher ==
    [id            |-> 1,
     email         |-> "alice@example.com",
     password_hash |-> hash_password("pw1"),
     created_at    |-> isoformat(0)]

InitWith(titles, contents) ==
    /\ users = <<Teacher>>
    /\ \E title \in titles, isbn \in ISBNs, chapter_label \in ChapterLabels,
          content \in contents :
           /\ chapters = <<[id            |-> 1,
                            user_id       |-> Teacher.id,
                            title         |-> title,
                            isbn          |-> isbn,
                            chapter_label |-> chapter_label,
                            content       |-> content,
                            created_at    |-> isoformat(0)]>>
           /\ pasted = (1 :> content)
    /\ now = 0
    /\ user = Teacher
    /\ view = View("Chapters", "", <<>>, <<>>, NoOptions, None, None)
    /\ registered = ("alice@example.com" :> "pw1")

\* Every quiz request on a short chapter.
InitQuiz == InitWith(Titles, {<<" ", "a", "\n">>, <<"b">>})

NextQuiz ==
    \/ ShowQuizPage(QuizRequests)
    \/ ShowCheatSheetPage(Levels)

SpecQuiz == InitQuiz /\ [][NextQuiz]_vars

\* Source texts around the truncation limit.  Neighbouring characters
\* differ, so that a shifted or reordered copy is not a copy.
Alphabet == <<"a", "b", "c", "d", "e">>

Text(n, k) == [i \in 1..n |-> Alphabet[((i * k) % 5) + 1]]

TextLengths ==
    {1, TruncLimit - 1, TruncLimit, TruncLimit + 1, TruncLimit + Excess}

LongTexts == {Text(n, k) : n \in TextLengths, k \in 1..2}

InitTrunc == InitWith({<<"Algebra">>}, LongTexts)

NextTrunc ==
    \/ ShowQuizPage(TypeRequests)
    \/ ShowCheatSheetPage(Levels)

SpecTrunc == InitTrunc /\ [][NextTrunc]_vars

-----------------------------------------------------------------------------
(* Properties. *)

Range(t) == {t[i] : i \in 1..Len(t)}

UserIds == {u.id : u \in Range(users)}

ChapterOps == {"save_chapter", "get_user_chapters", "get_chapter_content"}

\* The chapter-store calls of the last script run.
ChapterCalls == {c \in Range(view.calls) : c.op \in ChapterOps}

\* C1 (isolation): for every chapter C and every identity B other than C's
\* owner, get_chapter_content(C.id, B) returns nothing and no result of
\* get_user_chapters(B) holds C; C is returned to its owner alone; and what a
\* script run lists and loads belongs to the session's user.
Isolation ==
    /\ \A c \in Range(chapters) :
        /\ get_chapter_content(c.id, c.user_id) = c
        /\ \A b \in UserIds \ {c.user_id} :
            /\ get_chapter_content(c.id, b) = None
            /\ \A listed \in get_user_chapters(b) :
                   \A k \in 1..Len(listed) : listed[k].id # c.id
    /\ view.chapter # None => view.chapter.user_id = user.id
    /\ \A k \in 1..Len(view.chapters) :
           chapters[view.chapters[k].id].user_id = user.id

\* Another owner's chapter exists while the session's user lists and loads
\* a chapter of their own.
IsolationWitness ==
    /\ user # None
    /\ \E c \in Range(chapters) : c.user_id # user.id
    /\ view.chapter # None
    /\ view.chapters # <<>>

\* A sign-up for email ran in this step.
SignUpRan(email) ==
    /\ view' # view
    /\ view'.calls = <<AuthCall("create_user", email)>>

\* C2 (uniqueness): no two identities share an email, and a sign-up for an
\* email that is already registered leaves the table as it is and reports
\* "Email already registered.", whatever the passwords.
Uniqueness ==
    /\ [](\A i, j \in 1..Len(users) : users[i].email = users[j].email => i = j)
    /\ [][\A email \in Emails :
            SignUpRan(email) /\ IntegrityError(email) =>
                /\ users' = users
                /\ view'.msg = "Email already registered."]_vars

\* A sign-up was refused for an email that is registered.
UniquenessWitness ==
    /\ view.msg = "Email already registered."
    /\ \E u \in Range(users) : view.calls = <<AuthCall("create_user", u.email)>>

\* C3 (authentication): authenticate_user(email, password) returns the
\* identity of email exactly when email signed up successfully with that
\* password, and None otherwise, for an unknown email as for a wrong
\* password; a refused sign-up changes nothing of this.
AuthenticationCorrect ==
    \A email \in Emails, password \in Passwords :
        LET row == authenticate_user(email, password)
        IN  IF email \in DOMAIN registered /\ registered[email] = password
            THEN row \in Range(users) /\ row.email = email
            ELSE row = None

\* A sign-up for a registered email with another password was refused, and
\* a second identity exists.
AuthenticationWitness ==
    /\ view.msg = "Email already registered."
    /\ Len(users) = 2
    /\ \E u \in Range(users) :
        /\ view.calls = <<AuthCall("create_user", u.email)>>
        /\ registered[u.email] = "pw1"

\* C4 (requirement composition), as claimed: the payload holds the
\* requirement line of a question type only if that type's count is above
\* zero.
RequirementLinesOnlyForPositiveCounts ==
    view.prompt # None /\ view.prompt.kind = "quiz" =>
        \A k \in 1..Len(view.prompt.requirements) :
            view.prompt.requirements[k].n > 0

\* The creation time a stored timestamp stands for, in half seconds.
TimeOf(created_at) ==
    2 * ((Ord(created_at[1]) - 2) * 10 + (Ord(created_at[2]) - 2))
    + (IF Len(created_at) > 2 THEN 1 ELSE 0)

ContentValidated ==
    /\ [](\A c \in Range(chapters) : strip(c.content) # <<>>)
    /\ [][view' # view
          /\ view'.msg = "Please upload or paste some chapter content."
          => chapters' = chapters]_vars

\* A save was refused while the user has a chapter.
ContentValidatedWitness ==
    /\ view.msg = "Please upload or paste some chapter content."
    /\ view.chapters # <<>>

\* C7 (truncation): the text a payload embeds is the first
\* min(len(text), 15000) characters of the chapter's content, in order.
TruncationBoundary ==
    view.prompt # None =>
        LET text     == view.chapter.content
            embedded == view.prompt.text
        IN  /\ Len(embedded) = IF Len(text) < 15000 THEN Len(text) ELSE 15000
            /\ \A i \in 1..Len(embedded) : embedded[i] = text[i]

\* A cheat-sheet payload was built from a text longer than the limit.
TruncationWitness ==
    /\ view.prompt # None
    /\ view.prompt.kind = "cheat sheet"
    /\ Len(view.chapter.content) > 15000
    /\ Len(view.prompt.text) = 15000

\* C8 (round trip, immutability): a chapter saved from pasted text is
\* returned to its owner with exactly that text, and no step changes or
\* removes a stored chapter or identity.
RoundTrip ==
    /\ [](\A id \in DOMAIN pasted :
            LET got == get_chapter_content(id, chapters[id].user_id)
            IN  got # None /\ got.content = pasted[id])
    /\ [][/\ \A i \in 1..Len(chapters) :
                i <= Len(chapters') /\ chapters'[i] = chapters[i]
          /\ \A i \in 1..Len(users) :
                i <= Len(users') /\ users'[i] = users[i]]_vars

\* A pasted text with surrounding whitespace was saved, a second identity
\* signed up later, and the chapter is loaded and sent for generation.
RoundTripWitness ==
    /\ view.prompt # None
    /\ view.chapter.id \in DOMAIN pasted
    /\ strip(pasted[view.chapter.id]) # pasted[view.chapter.id]
    /\ view.chapter.content = pasted[view.chapter.id]
    /\ Len(users) = 2
    /\ Len(chapters) = 2

\* C9 (access gating): the session's user is empty exactly while the login
\* page is shown; a user the session holds is an identity of the table whose
\* password is the one it signed up with; and every chapter-store call of a
\* script run is made for the session user's id.
AccessGated ==
    /\ user = None <=> view.page = "Login"
    /\ user = None => ChapterCalls = {}
    /\ user # None =>
        /\ user \in Range(users)
        /\ user.password_hash = hash_password(registered[user.email])
        /\ \A c \in ChapterCalls : c.user_id = user.id

\* The second identity saved a chapter.
AccessGatedWitness ==
    /\ user # None
    /\ user.id = 2
    /\ \E c \in ChapterCalls : c.op = "save_chapter"

\* C10 (every listed chapter can be selected), as claimed: on the two
\* generation pages every listed chapter is the value of some option of the
\* select box.
EveryListedChapterSelectable ==
    view.page \in {"Generate Quiz", "Cheat Sheet"} =>
        \A k \in 1..Len(view.chapters) :
            \E l \in DOMAIN view.options : view.options[l] = view.chapters[k].id

=============================================================================
